---------------------------- MODULE Spec2Model ----------------------------
(***************************************************************************)
(* ServiceMonitorProvider (src/servicemonitor.py): conversion of           *)
(* Prometheus and ServiceMonitor manifests into one Prometheus compose     *)
(* service and its scrape configuration.                                   *)
(*                                                                         *)
(* Python strings are sequences of one-character strings, so that          *)
(* formatting, substring tests, digit tests and glob matching are computed *)
(* rather than assumed.  A dict is a sequence of <<key, value>> pairs in   *)
(* insertion order.  An optional dict entry is <<>> (absent) or <<v>>.     *)
(***************************************************************************)
EXTENDS Integers, Sequences, FiniteSets, TLC

VARIABLES
    prometheus_spec, \* self._prometheus_spec: <<>> (None) or <<spec>>
    ctx,             \* the conversion context handed to convert()
    manifests,       \* the manifests of the running ServiceMonitor call
    kind,            \* the kind argument of the running call
    pc,              \* position of the running call
    mi,              \* index (1-based) of the monitor being processed
    ei,              \* index (1-based) of the endpoint being processed
    target_svc,      \* label-matched service of the current monitor, or <<>>
    compose_name,    \* resolved compose name of the current monitor
    scrape_jobs,     \* local list scrape_jobs
    ca_mounts,       \* local list ca_mounts
    files,           \* files under ctx.output_dir/configmaps
    stderr,          \* lines the running call printed to stderr
    result           \* the ConvertResult last returned (its services dict)

vars == <<prometheus_spec, ctx, manifests, kind, pc, mi, ei, target_svc,
          compose_name, scrape_jobs, ca_mounts, files, stderr, result>>

----------------------------------------------------------------------------
(* String literals of the source.                                          *)

\* "prometheus"
L_prometheus == <<"p", "r", "o", "m", "e", "t", "h", "e", "u", "s">>
\* "prom/prometheus"
L_prom_image == <<"p", "r", "o", "m", "/", "p", "r", "o", "m", "e", "t",
      "h", "e", "u", "s">>
\* "latest"
L_latest == <<"l", "a", "t", "e", "s", "t">>
\* "15d"
L_15d == <<"1", "5", "d">>
\* "svc.cluster.local"
L_svc_cluster_local == <<"s", "v", "c", ".", "c", "l", "u", "s", "t", "e",
      "r", ".", "l", "o", "c", "a", "l">>
\* "http"
L_http == <<"h", "t", "t", "p">>
\* "https"
L_https == <<"h", "t", "t", "p", "s">>
\* "/metrics"
L_metrics == <<"/", "m", "e", "t", "r", "i", "c", "s">>
\* "30s"
L_30s == <<"3", "0", "s">>
\* "?"
L_unnamed == <<"?">>
\* "ca-certificates.crt"
L_ca_key == <<"c", "a", "-", "c", "e", "r", "t", "i", "f", "i", "c", "a",
      "t", "e", "s", ".", "c", "r", "t">>
\* "/etc/prometheus/ca/"
L_ca_dir == <<"/", "e", "t", "c", "/", "p", "r", "o", "m", "e", "t", "h",
      "e", "u", "s", "/", "c", "a", "/">>
\* "./configmaps/"
L_configmaps == <<".", "/", "c", "o", "n", "f", "i", "g", "m", "a", "p",
      "s", "/">>
\* ":ro"
L_ro == <<":", "r", "o">>
\* "./configmaps/prometheus-scrape-config/prometheus.yml:"
\* "/etc/prometheus/prometheus.yml:ro"
L_scrape_mount == <<".", "/", "c", "o", "n", "f", "i", "g", "m", "a", "p",
      "s", "/", "p", "r", "o", "m", "e", "t", "h", "e", "u", "s", "-", "s",
      "c", "r", "a", "p", "e", "-", "c", "o", "n", "f", "i", "g", "/", "p",
      "r", "o", "m", "e", "t", "h", "e", "u", "s", ".", "y", "m", "l", ":",
      "/", "e", "t", "c", "/", "p", "r", "o", "m", "e", "t", "h", "e", "u",
      "s", "/", "p", "r", "o", "m", "e", "t", "h", "e", "u", "s", ".", "y",
      "m", "l", ":", "r", "o">>
\* "prometheus-scrape-config"
L_cm_name == <<"p", "r", "o", "m", "e", "t", "h", "e", "u", "s", "-", "s",
      "c", "r", "a", "p", "e", "-", "c", "o", "n", "f", "i", "g">>
\* "--config.file=/etc/prometheus/prometheus.yml"
L_config_flag == <<"-", "-", "c", "o", "n", "f", "i", "g", ".", "f", "i",
      "l", "e", "=", "/", "e", "t", "c", "/", "p", "r", "o", "m", "e", "t",
      "h", "e", "u", "s", "/", "p", "r", "o", "m", "e", "t", "h", "e", "u",
      "s", ".", "y", "m", "l">>
\* "--storage.tsdb.retention.time="
L_retention_flag == <<"-", "-", "s", "t", "o", "r", "a", "g", "e", ".", "t",
      "s", "d", "b", ".", "r", "e", "t", "e", "n", "t", "i", "o", "n", ".",
      "t", "i", "m", "e", "=">>
\* "always"
L_always == <<"a", "l", "w", "a", "y", "s">>
\* "9090:9090"
L_port_map == <<"9", "0", "9", "0", ":", "9", "0", "9", "0">>
\* "ClusterIP"
L_ClusterIP == <<"C", "l", "u", "s", "t", "e", "r", "I", "P">>
\* the port number Prometheus listens on
PrometheusPort == 9090

----------------------------------------------------------------------------
(* Python values and the built-ins the source applies to them.             *)

\* None, an int and a str where the source lets one variable hold any of them
NoneV == [t |-> "none", v |-> 0]
IntV(n) == [t |-> "int", v |-> n]
StrV(s) == [t |-> "str", v |-> s]

\* d.get(k, default) on an optional entry
OptGet(o, default) == IF o = <<>> THEN default ELSE o[1]

Digits == <<"0", "1", "2", "3", "4", "5", "6", "7", "8", "9">>

DigitValue(c) == (CHOOSE i \in 1..10 : Digits[i] = c) - 1

\* str.isdigit()
IsDigit(s) == s # <<>> /\ \A i \in 1..Len(s) : \E d \in 1..10 : Digits[d] = s[i]

RECURSIVE ParseInt(_)
\* int(s) for a string of digits
ParseInt(s) ==
    IF s = <<>> THEN 0
    ELSE 10 * ParseInt(SubSeq(s, 1, Len(s) - 1)) + DigitValue(s[Len(s)])

RECURSIVE Str(_)
\* str(n) for n >= 0
Str(n) == IF n < 10 THEN <<Digits[n + 1]>>
          ELSE Str(n \div 10) \o <<Digits[(n % 10) + 1]>>

\* f"{v}" for an int or a str
Format(pv) == IF pv.t = "int" THEN Str(pv.v) ELSE pv.v

\* sub in s
Contains(s, sub) ==
    \E i \in 0..(Len(s) - Len(sub)) : SubSeq(s, i + 1, i + Len(sub)) = sub

RECURSIVE LStrip(_, _)
\* s.lstrip(c)
LStrip(s, c) == IF s # <<>> /\ s[1] = c THEN LStrip(Tail(s), c) ELSE s

\* dict operations on a sequence of <<key, value>> pairs
DictHas(d, k) == \E i \in 1..Len(d) : d[i][1] = k
DictGet(d, k, default) ==
    IF DictHas(d, k) THEN d[CHOOSE i \in 1..Len(d) : d[i][1] = k][2]
    ELSE default
DictKeys(d) == {d[i][1] : i \in 1..Len(d)}
DictValues(d) == [i \in 1..Len(d) |-> d[i][2]]
DictSet(d, k, v) ==
    IF DictHas(d, k)
    THEN [i \in 1..Len(d) |-> IF d[i][1] = k THEN <<k, v>> ELSE d[i]]
    ELSE Append(d, <<k, v>>)

Range(s) == {s[i] : i \in 1..Len(s)}

----------------------------------------------------------------------------
(* Warnings.  A warning is the message template's tag followed by the      *)
(* values the source formats into it.                                      *)

\* "(none)"
L_none == <<"(", "n", "o", "n", "e", ")">>

W_no_selector(name) == <<"no selector.matchLabels, skipping", name>>
W_no_service(name, match_labels) ==
    <<"no K8s Service matches labels, skipping", name, match_labels>>
W_port(sm_name, port_ref) ==
    <<"could not resolve port to a number, skipping endpoint", sm_name,
      port_ref>>
W_ca(sm_name, cm_name) ==
    <<"CA configmap not found, TLS job generated without ca_file", sm_name,
      cm_name>>
W_none_found == <<"No resolvable ServiceMonitors found">>
W_defaults(image, retention) ==
    <<"No Prometheus CR found in manifests, using defaults", image, retention>>

----------------------------------------------------------------------------
(* The helpers of the source.                                              *)

Min(S) == CHOOSE x \in S : \A y \in S : x <= y

\* Truth value of a port reference: None, 0 and "" are false.
Truthy(pv) ==
    /\ pv.t # "none"
    /\ ~(pv.t = "int" /\ pv.v = 0)
    /\ ~(pv.t = "str" /\ pv.v = <<>>)

\* Mutant of _find_service: a service qualifies as soon as one pair of
\* match_labels is in its selector.
_find_service_AnyLabel(match_labels, services_by_selector) ==
    LET matches(i) ==
            LET selector == services_by_selector[i][2].selector
            IN  /\ selector # <<>>
                /\ \E j \in 1..Len(match_labels) :
                       /\ DictHas(selector, match_labels[j][1])
                       /\ DictGet(selector, match_labels[j][1], <<>>)
                              = match_labels[j][2]
        hits == {i \in 1..Len(services_by_selector) : matches(i)}
    IN  IF hits = {} THEN <<>> ELSE <<services_by_selector[Min(hits)][2]>>

\* The first service, in the registry's iteration order, whose non-empty
\* selector holds every pair of match_labels; <<>> when there is none.
\* (Label values are strings, so selector.get(k) == v needs k present.)
_find_service(match_labels, services_by_selector) ==
    LET matches(i) ==
            LET selector == services_by_selector[i][2].selector
            IN  /\ selector # <<>>
                /\ \A j \in 1..Len(match_labels) :
                       /\ DictHas(selector, match_labels[j][1])
                       /\ DictGet(selector, match_labels[j][1], <<>>)
                              = match_labels[j][2]
        hits == {i \in 1..Len(services_by_selector) : matches(i)}
    IN  IF hits = {} THEN <<>> ELSE <<services_by_selector[Min(hits)][2]>>

\* The first candidate (monitor name, then the label values) whose alias
\* is a known name; <<>> when there is none.
_fallback_by_name(sm_name, match_labels, c) ==
    LET candidates == <<sm_name>> \o DictValues(match_labels)
        known == Range(DictValues(c.alias_map)) \cup DictKeys(c.alias_map)
                     \cup DictKeys(c.services_by_selector)
        resolved(i) == DictGet(c.alias_map, candidates[i], candidates[i])
        hits == {i \in 1..Len(candidates) : resolved(i) \in known}
    IN  IF hits = {} THEN <<>> ELSE <<resolved(Min(hits))>>

\* sp.get("targetPort", sp.get("port"))
TargetPortOf(sp) ==
    IF sp.targetPort # <<>> THEN sp.targetPort[1] ELSE OptGet(sp.port, NoneV)

\* The value returned for a named port found in the service's port list.
NumericOrNone(tp) ==
    IF tp.t = "int" THEN tp
    ELSE IF tp.t = "str" /\ IsDigit(tp.v) THEN IntV(ParseInt(tp.v))
    ELSE NoneV

\* The value returned when the endpoint names no port.
FirstPortOf(svc_info) ==
    IF svc_info = <<>> THEN NoneV
    ELSE IF svc_info[1].ports # <<>> THEN TargetPortOf(svc_info[1].ports[1])
    ELSE NoneV

\* svc_info is <<>> (None) or <<info>>.
_resolve_port(ep, svc_info) ==
    LET port_ref == OptGet(ep.port, StrV(<<>>))
    IN  IF ~Truthy(port_ref) THEN FirstPortOf(svc_info)
        ELSE IF port_ref.t = "int" THEN port_ref
        ELSE IF IsDigit(port_ref.v) THEN IntV(ParseInt(port_ref.v))
        ELSE IF svc_info = <<>> THEN NoneV
        ELSE LET ports == svc_info[1].ports
                 hits == {i \in 1..Len(ports) :
                             /\ ports[i].name # <<>>
                             /\ ports[i].name[1] = port_ref.v}
             IN  IF hits = {} THEN NoneV
                 ELSE NumericOrNone(TargetPortOf(ports[Min(hits)]))

\* Mutant of CaKnown: any named configmap is taken as known.
CaKnown_AnyName(cm_name, configmaps) == cm_name # <<>>

\* Whether the CA configmap of an endpoint is used: it is named and known.
CaKnown(cm_name, configmaps) == cm_name # <<>> /\ cm_name \in configmaps

\* Returns the TLS config, the CA mounts and the warnings it appends.
_build_tls_config(ep, sm_name, c) ==
    LET tls_cfg == ep.tlsConfig
        cm_name == tls_cfg.cm_name
        cm_key == OptGet(tls_cfg.cm_key, L_ca_key)
        container_path == L_ca_dir \o cm_name \o <<"/">> \o cm_key
        known == CaKnown(cm_name, c.configmaps)
        server_name == tls_cfg.serverName
    IN  [tls_config |->
             [ca_file |-> IF known THEN <<container_path>> ELSE <<>>,
              server_name |-> IF server_name # <<>> THEN <<server_name>>
                              ELSE <<>>],
         ca_mounts |->
             IF known
             THEN <<L_configmaps \o cm_name \o <<"/">> \o cm_key \o <<":">>
                      \o container_path \o L_ro>>
             ELSE <<>>,
         warnings |->
             IF ~known /\ cm_name # <<>> THEN <<W_ca(sm_name, cm_name)>>
             ELSE <<>>]

\* Truth value of a TLS config dict: it has at least one entry.
TlsNonEmpty(tls_config) ==
    tls_config.ca_file # <<>> \/ tls_config.server_name # <<>>

RECURSIVE fnmatch(_, _)
\* fnmatch.fnmatch on a POSIX host, for patterns without '[': '*' matches
\* any run of characters, '?' any one character, the rest themselves.
fnmatch(name, pat) ==
    IF pat = <<>> THEN name = <<>>
    ELSE IF pat[1] = "*"
         THEN fnmatch(name, Tail(pat))
                  \/ (name # <<>> /\ fnmatch(Tail(name), pat))
    ELSE IF pat[1] = "?"
         THEN name # <<>> /\ fnmatch(Tail(name), Tail(pat))
    ELSE name # <<>> /\ name[1] = pat[1] /\ fnmatch(Tail(name), Tail(pat))

\* Mutant of _is_excluded: the patterns are compared as plain names.
_is_excluded_exact(name, exclude) ==
    \E i \in 1..Len(exclude) : name = exclude[i]

_is_excluded(name, exclude) ==
    \E i \in 1..Len(exclude) : fnmatch(name, exclude[i])

\* job_name of endpoint ep_idx (zero-based) of a monitor with ep_count
JobName(sm_name, ep_idx, ep_count) ==
    IF ep_count = 1 THEN sm_name ELSE sm_name \o <<"-">> \o Str(ep_idx)

\* Mutant of TargetNamespace: the registry entry under the compose name
\* is asked first, the matched service second.
TargetNamespace_RegistryFirst(svc_info, compose, c) ==
    LET ns == IF DictHas(c.services_by_selector, compose)
              THEN DictGet(c.services_by_selector, compose, <<>>).namespace
              ELSE <<>>
    IN  IF ns # <<>> THEN ns
        ELSE IF svc_info # <<>> THEN svc_info[1].namespace
        ELSE <<>>

\* The namespace the target host is qualified with ("" for none).
TargetNamespace(svc_info, compose, c) ==
    LET ns == IF DictHas(c.services_by_selector, compose)
              THEN DictGet(c.services_by_selector, compose, <<>>).namespace
              ELSE <<>>
    IN  IF svc_info # <<>> /\ svc_info[1].namespace # <<>>
        THEN svc_info[1].namespace
        ELSE ns

TargetHost(compose, ns) ==
    IF ns # <<>> THEN compose \o <<".">> \o ns \o <<".">> \o L_svc_cluster_local
    ELSE compose

\* Returns the job (<<>> for None), its CA mounts and the warnings appended.
_build_scrape_job(sm_name, ep_idx, ep_count, ep, svc_info, compose, c) ==
    LET port == _resolve_port(ep, svc_info)
        scheme == OptGet(ep.scheme, L_http)
        ns == TargetNamespace(svc_info, compose, c)
        tls == _build_tls_config(ep, sm_name, c)
        https == scheme = L_https
    IN  IF port = NoneV
        THEN [job |-> <<>>, ca_mounts |-> <<>>,
              warnings |-> <<W_port(sm_name, OptGet(ep.port, StrV(L_none)))>>]
        ELSE [job |->
                  <<[job_name |-> JobName(sm_name, ep_idx, ep_count),
                     metrics_path |-> OptGet(ep.path, L_metrics),
                     scrape_interval |-> OptGet(ep.interval, L_30s),
                     scheme |-> scheme,
                     static_configs |->
                         <<[targets |-> <<TargetHost(compose, ns) \o <<":">>
                                            \o Format(port)>>]>>,
                     tls_config |->
                         IF https /\ TlsNonEmpty(tls.tls_config)
                         THEN <<tls.tls_config>> ELSE <<>>]>>,
              ca_mounts |-> IF https THEN tls.ca_mounts ELSE <<>>,
              warnings |-> IF https THEN tls.warnings ELSE <<>>]

\* Mutant of Dedup: every mount is kept.
Dedup_None(mounts, seen) == mounts

RECURSIVE Dedup(_, _)
\* The mounts of the list not yet seen, in first-seen order.
Dedup(mounts, seen) ==
    IF mounts = <<>> THEN <<>>
    ELSE IF mounts[1] \in seen THEN Dedup(Tail(mounts), seen)
    ELSE <<mounts[1]>> \o Dedup(Tail(mounts), seen \cup {mounts[1]})

\* The image of the service: default, then the version or "latest" as tag.
ServiceImage(prom) ==
    LET image == IF prom.image # <<>> THEN prom.image ELSE L_prom_image
    IN  IF prom.version # <<>> /\ ~Contains(image, <<":">>)
        THEN image \o <<":", "v">> \o LStrip(prom.version, "v")
        ELSE IF ~Contains(image, <<":">>) THEN image \o <<":">> \o L_latest
        ELSE image

\* self._prometheus_spec or {}, read with .get(key, "")
SpecOrEmpty(spec) ==
    IF spec = <<>> THEN [image |-> <<>>, version |-> <<>>, retention |-> <<>>]
    ELSE spec[1]

\* Returns the service definition and the warnings appended.
_build_prometheus_service(mounts, spec) ==
    LET prom == SpecOrEmpty(spec)
        image == ServiceImage(prom)
        retention == IF prom.retention # <<>> THEN prom.retention ELSE L_15d
    IN  [service |->
             [image |-> image,
              restart |-> L_always,
              command |-> <<L_config_flag, L_retention_flag \o retention>>,
              volumes |-> <<L_scrape_mount>> \o Dedup(mounts, {}),
              ports |-> <<L_port_map>>],
         warnings |-> IF spec = <<>> THEN <<W_defaults(image, retention)>>
                      ELSE <<>>]

\* The first registry entry, other than "prometheus" itself, whose key
\* contains "prometheus" and that has a port or targetPort 9090.
_find_prometheus_k8s_service(services_by_selector) ==
    LET exposes(ports) ==
            \E i \in 1..Len(ports) :
                \/ OptGet(ports[i].port, NoneV) = IntV(PrometheusPort)
                \/ OptGet(ports[i].targetPort, NoneV) = IntV(PrometheusPort)
        hits == {i \in 1..Len(services_by_selector) :
                    /\ Contains(services_by_selector[i][1], L_prometheus)
                    /\ services_by_selector[i][1] # L_prometheus
                    /\ exposes(services_by_selector[i][2].ports)}
    IN  IF hits = {} THEN <<>> ELSE <<services_by_selector[Min(hits)][2]>>

\* The document _render_prometheus_yml serialises (yaml.dump keeps the
\* order of keys and of the job list).
_render_prometheus_yml(jobs) ==
    [global |-> [scrape_interval |-> L_30s], scrape_configs |-> jobs]

----------------------------------------------------------------------------
(* The inputs: the manifests and the conversion context a call receives.   *)

MaxMonitors == 2     \* ServiceMonitor manifests in one call
MaxEndpoints == 2    \* endpoints of one monitor
MaxServices == 2     \* services in the registry
MaxPatterns == 2     \* exclude patterns in the configuration
MaxPrometheus == 2   \* Prometheus manifests in one call

SeqsUpTo(S, n) == UNION {[1..k -> S] : k \in 0..n}

\* A registry entry: the key and the service info stored under it.
Svc(key, ns, selector, ports) ==
    <<key, [name |-> key, namespace |-> ns, selector |-> selector,
            type |-> L_ClusterIP, ports |-> ports]>>

\* A service port; each field is optional.
SP(name, port, targetPort) ==
    [name |-> name, port |-> port, targetPort |-> targetPort]

\* An endpoint.  An absent tlsConfig, ca, configMap, name or serverName
\* reads as "" in the source, so those are plain strings here.
EP(port, scheme, cm_name, cm_key, serverName) ==
    [port |-> port, scheme |-> scheme, path |-> <<>>, interval |-> <<>>,
     tlsConfig |-> [cm_name |-> cm_name, cm_key |-> cm_key,
                    serverName |-> serverName]]

\* A ServiceMonitor manifest: metadata.name (optional),
\* spec.selector.matchLabels ({} when absent), spec.endpoints ([] when absent)
SM(name, match_labels, endpoints) ==
    [name |-> name, matchLabels |-> match_labels, endpoints |-> endpoints]

\* A Prometheus manifest: metadata.name and the three spec fields the
\* indexer reads ("" when absent).
PM(name, image, version, retention) ==
    [name |-> name, image |-> image, version |-> version,
     retention |-> retention]

Ctx(registry, alias_map, configmaps, exclude) ==
    [config |-> [exclude |-> exclude], warnings |-> <<>>,
     alias_map |-> alias_map, services_by_selector |-> registry,
     configmaps |-> configmaps, generated_cms |-> {}]

sA == <<"a">>
sB == <<"b">>
sZ == <<"z">>
sA0 == <<"a", "-", "0">>
kApp == <<"k">>
kTier == <<"t">>
nsN == <<"n">>
nsM == <<"m">>
pWeb == <<"w">>
pAlt == <<"h">>
cmKnown == <<"c">>
cmOther == <<"d">>
cmKey == <<"y">>
sServer == <<"s">>
sPromK8s == L_prometheus \o <<"-", "k">>

LabelsA == <<<<kApp, sA>>>>
LabelsB == <<<<kApp, sB>>>>
LabelsZ == <<<<kApp, sZ>>>>
LabelsAB == <<<<kApp, sA>>, <<kTier, sB>>>>

Port80 == <<SP(<<pWeb>>, <<IntV(80)>>, <<>>)>>
Plain == EP(<<IntV(80)>>, <<>>, <<>>, <<>>, <<>>)
BadPort == EP(<<StrV(sZ)>>, <<>>, <<>>, <<>>, <<>>)
HttpsUnknownCa == EP(<<IntV(80)>>, <<L_https>>, cmOther, <<>>, <<>>)
RegistryA == <<Svc(sA, nsN, LabelsA, Port80)>>

\* Monitors that differ in name and in number of endpoints.
NameMonitors ==
    {SM(<<n>>, LabelsA, [i \in 1..k |-> Plain]) :
         n \in {sA, sA0}, k \in 0..MaxEndpoints}
        \cup {SM(<<sA>>, <<>>, <<Plain>>)}
NameInputs ==
    {[ctx |-> Ctx(RegistryA, <<>>, {}, <<>>), manifests |-> ms] :
         ms \in SeqsUpTo(NameMonitors, MaxMonitors)}
        \cup {[ctx |-> Ctx(RegistryA, <<>>, {}, <<>>),
                manifests |-> <<SM(<<>>, LabelsA, <<Plain>>)>>]}

\* Endpoints that differ in their port, against services that differ in
\* their port list, resolved by label (LabelsA) or by name (LabelsZ).
PortRefs ==
    {<<>>, <<IntV(80)>>, <<StrV(<<"8", "1">>)>>, <<StrV(pWeb)>>,
     <<StrV(sZ)>>}
PortLists ==
    {<<>>,
     Port80,
     <<SP(<<pWeb>>, <<IntV(80)>>, <<StrV(pAlt)>>)>>,
     <<SP(<<pWeb>>, <<>>, <<StrV(<<"8", "2">>)>>)>>,
     <<SP(<<>>, <<>>, <<>>)>>,
     <<SP(<<pAlt>>, <<IntV(80)>>, <<>>), SP(<<pWeb>>, <<IntV(83)>>, <<>>)>>}
PortInputs ==
    {[ctx |-> Ctx(<<Svc(sA, <<>>, LabelsA, ports)>>, <<>>, {}, <<>>),
      manifests |-> <<SM(<<sA>>, labels,
                         [i \in DOMAIN refs |->
                             EP(refs[i], <<>>, <<>>, <<>>, <<>>)])>>] :
         ports \in PortLists, labels \in {LabelsA, LabelsZ},
         refs \in SeqsUpTo(PortRefs, MaxEndpoints)}

\* Endpoints that differ in scheme and TLS settings.
TlsEndpoints ==
    {EP(<<IntV(80)>>, <<L_https>>, ca[1], ca[2], sn) :
         ca \in {<<<<>>, <<>>>>, <<cmKnown, <<>>>>, <<cmKnown, <<cmKey>>>>,
                 <<cmOther, <<>>>>},
         sn \in {<<>>, sServer}}
        \cup {Plain, EP(<<IntV(80)>>, <<L_http>>, cmKnown, <<>>, sServer)}
TlsInputs ==
    {[ctx |-> Ctx(RegistryA, <<>>, cms, <<>>),
      manifests |-> <<SM(<<sA>>, LabelsA, eps)>>] :
         cms \in {{}, {cmKnown}},
         eps \in SeqsUpTo(TlsEndpoints, MaxEndpoints)}

\* Registries that differ in the services' selectors and order.
MatchEntries ==
    {Svc(key, <<>>, selector, Port80) :
         key \in {sA, sB, sZ},
         selector \in {<<>>, LabelsA, LabelsAB, LabelsB}}
DistinctKeys(registry) ==
    \A i, j \in 1..Len(registry) :
        registry[i][1] = registry[j][1] => i = j
Registries ==
    {r \in SeqsUpTo(MatchEntries, MaxServices) : DistinctKeys(r)}
MatchInputs ==
    {[ctx |-> Ctx(r, alias, {}, <<>>),
      manifests |-> <<SM(<<n>>, labels, <<Plain>>)>>] :
         r \in Registries, alias \in {<<>>, <<<<sA, sB>>>>},
         n \in {sA, sZ}, labels \in {LabelsA, LabelsAB}}

\* Matched services and alias targets that differ in namespace.
HostInputs ==
    {[ctx |-> Ctx(<<Svc(sA, ns1, LabelsA, Port80)>> \o second, alias, {},
                  <<>>),
      manifests |-> <<SM(<<sA>>, LabelsA, <<Plain>>)>>] :
         ns1 \in {<<>>, nsN},
         second \in {<<>>, <<Svc(sB, <<>>, LabelsB, Port80)>>,
                     <<Svc(sB, nsM, LabelsB, Port80)>>},
         alias \in {<<>>, <<<<sA, sB>>>>, <<<<sA, sZ>>>>}}

\* Exclude lists against monitors whose endpoints resolve or fail.
Patterns == {<<"a">>, <<"*">>, <<"?">>, <<"b", "*">>, <<"a", "?">>}
ExcludeInputs ==
    {[ctx |-> Ctx(RegistryA, alias, {}, exclude),
      manifests |-> <<SM(<<sA>>, LabelsA, eps)>>] :
         alias \in {<<>>, <<<<sA, sB>>>>},
         exclude \in SeqsUpTo(Patterns, MaxPatterns),
         eps \in {<<Plain>>, <<BadPort, HttpsUnknownCa>>}}

\* Registries that hold a service exposing Prometheus itself.
SelfInputs ==
    {[ctx |-> Ctx(r, <<>>, {}, <<>>),
      manifests |-> <<SM(<<sA>>, LabelsA, <<Plain>>)>>] :
         r \in {<<Svc(sPromK8s, nsN, LabelsA, p)>> : p \in
                    {<<SP(<<pWeb>>, <<IntV(PrometheusPort)>>, <<>>)>>,
                     <<SP(<<pWeb>>, <<IntV(80)>>,
                          <<IntV(PrometheusPort)>>)>>,
                     <<SP(<<pWeb>>, <<StrV(<<"9", "0", "9", "0">>)>>,
                          <<>>)>>}}
               \cup {<<Svc(L_prometheus, nsM, <<>>, <<>>),
                       Svc(sPromK8s, nsN, LabelsA,
                           <<SP(<<pWeb>>, <<IntV(PrometheusPort)>>,
                                <<>>)>>)>>}}

Inputs ==
    NameInputs \cup PortInputs \cup TlsInputs \cup MatchInputs
        \cup HostInputs \cup ExcludeInputs \cup SelfInputs

PrometheusManifests ==
    {PM(<<>>, <<>>, <<>>, <<>>),
     PM(<<sA>>, <<"p">>, <<"v", "2">>, <<"9", "d">>),
     PM(<<sB>>, <<"p", ":", "1">>, <<"2">>, <<>>)}
PrometheusInputs == SeqsUpTo(PrometheusManifests, MaxPrometheus)

----------------------------------------------------------------------------
(* The provider as a state machine.  convert("Prometheus", ...) is one     *)
(* step; convert("ServiceMonitor", ...) is one step per monitor and per    *)
(* endpoint of its loops, and a last step for what follows them.           *)

NoCtx == Ctx(<<>>, <<>>, {}, <<>>)

Init ==
    /\ prometheus_spec = <<>>
    /\ ctx = NoCtx
    /\ manifests = <<>>
    /\ kind = "none"
    /\ pc = "idle"
    /\ mi = 0
    /\ ei = 0
    /\ target_svc = <<>>
    /\ compose_name = <<>>
    /\ scrape_jobs = <<>>
    /\ ca_mounts = <<>>
    /\ files = <<>>
    /\ stderr = <<>>
    /\ result = <<>>

\* The spec _index_prometheus leaves stored, given the one stored before.
_index_prometheus(ms, stored) ==
    IF ms = <<>> THEN stored
    ELSE <<[image |-> ms[1].image, version |-> ms[1].version,
            retention |-> ms[1].retention]>>

\* convert("Prometheus", ms, ctx)
ConvertPrometheus ==
    /\ pc = "idle"
    /\ \E ms \in PrometheusInputs :
           /\ prometheus_spec' = _index_prometheus(ms, prometheus_spec)
           /\ stderr' = [i \in 1..(Len(ms) - 1) |->
                             <<"ignoring extra Prometheus CR",
                               OptGet(ms[i + 1].name, L_unnamed)>>]
    /\ kind' = "Prometheus"
    /\ result' = <<>>
    /\ pc' = "returned"
    /\ UNCHANGED <<ctx, manifests, mi, ei, target_svc, compose_name,
                   scrape_jobs, ca_mounts, files>>

\* convert("ServiceMonitor", ms, ctx) up to the first monitor; an empty
\* manifest list returns at once.
BeginServiceMonitors ==
    /\ pc = "idle"
    /\ \E in \in Inputs :
           /\ ctx' = in.ctx
           /\ manifests' = in.manifests
           /\ pc' = IF in.manifests = <<>> THEN "returned" ELSE "monitor"
    /\ kind' = "ServiceMonitor"
    /\ mi' = 1
    /\ ei' = 0
    /\ target_svc' = <<>>
    /\ compose_name' = <<>>
    /\ scrape_jobs' = <<>>
    /\ ca_mounts' = <<>>
    /\ result' = <<>>
    /\ UNCHANGED <<prometheus_spec, files, stderr>>

MonitorName(m) == OptGet(m.name, L_unnamed)

\* How a monitor is settled before its endpoints are looked at: skipped
\* for want of labels (the locals keep their values) or of a service,
\* excluded, or resolved.
Resolve(m, c) ==
    LET name == MonitorName(m)
        found == _find_service(m.matchLabels, c.services_by_selector)
        fallback == _fallback_by_name(name, m.matchLabels, c)
        compose == IF found # <<>>
                   THEN DictGet(c.alias_map, found[1].name, found[1].name)
                   ELSE fallback[1]
    IN  IF m.matchLabels = <<>>
        THEN [status |-> "skipped", warnings |-> <<W_no_selector(name)>>,
              target_svc |-> target_svc, compose_name |-> compose_name]
        ELSE IF found = <<>> /\ fallback = <<>>
        THEN [status |-> "skipped",
              warnings |-> <<W_no_service(name, m.matchLabels)>>,
              target_svc |-> <<>>, compose_name |-> <<>>]
        ELSE IF _is_excluded(compose, c.config.exclude)
        THEN [status |-> "excluded", warnings |-> <<>>,
              target_svc |-> found, compose_name |-> compose]
        ELSE [status |-> "resolved", warnings |-> <<>>,
              target_svc |-> found, compose_name |-> compose]

\* One pass of the loop over the manifests, up to the endpoint loop.
ProcessMonitor ==
    /\ pc = "monitor"
    /\ mi <= Len(manifests)
    /\ LET m == manifests[mi]
           r == Resolve(m, ctx)
           enter == r.status = "resolved" /\ m.endpoints # <<>>
       IN  /\ ctx' = [ctx EXCEPT !.warnings = @ \o r.warnings]
           /\ target_svc' = r.target_svc
           /\ compose_name' = r.compose_name
           /\ pc' = IF enter THEN "endpoint" ELSE "monitor"
           /\ mi' = IF enter THEN mi ELSE mi + 1
           /\ ei' = IF enter THEN 1 ELSE 0
    /\ UNCHANGED <<prometheus_spec, manifests, kind, scrape_jobs,
                   ca_mounts, files, stderr, result>>

\* Mutant of LastEndpoint: a skipped endpoint ends the loop.
LastEndpoint_Break(job, idx, count) == idx = count \/ job.job = <<>>

\* Whether the endpoint loop ends after endpoint idx (1-based) of count:
\* a skipped endpoint continues the loop like an emitted one.
LastEndpoint(job, idx, count) == idx = count

\* One pass of the loop over the endpoints of the current monitor.
ProcessEndpoint ==
    /\ pc = "endpoint"
    /\ LET m == manifests[mi]
           endpoints == m.endpoints
           job == _build_scrape_job(MonitorName(m), ei - 1, Len(endpoints),
                                    endpoints[ei], target_svc, compose_name,
                                    ctx)
           last == LastEndpoint(job, ei, Len(endpoints))
       IN  /\ ctx' = [ctx EXCEPT !.warnings = @ \o job.warnings]
           /\ scrape_jobs' = scrape_jobs \o job.job
           /\ ca_mounts' = ca_mounts \o job.ca_mounts
           /\ pc' = IF last THEN "monitor" ELSE "endpoint"
           /\ mi' = IF last THEN mi + 1 ELSE mi
           /\ ei' = IF last THEN 0 ELSE ei + 1
    /\ UNCHANGED <<prometheus_spec, manifests, kind, target_svc,
                   compose_name, files, stderr, result>>

\* The registry and alias table after Prometheus registered itself.
Registered(c) ==
    LET k8s_svc == _find_prometheus_k8s_service(c.services_by_selector)
    IN  IF k8s_svc = <<>> THEN c
        ELSE [c EXCEPT
                 !.alias_map = DictSet(@, k8s_svc[1].name, L_prometheus),
                 !.services_by_selector =
                     IF DictHas(@, L_prometheus) THEN @
                     ELSE Append(@, Svc(L_prometheus, k8s_svc[1].namespace,
                                        <<>>, k8s_svc[1].ports))]

\* Mutant of NoJobs: nothing is appended.
NoJobs_Silent(c) == c

\* The context after a run that produced no scrape job.
NoJobs(c) == [c EXCEPT !.warnings = Append(@, W_none_found)]

\* What follows the loops: nothing to scrape, or the scrape configuration
\* written, the service built and Prometheus registered.
Finish ==
    /\ pc = "monitor"
    /\ mi > Len(manifests)
    /\ IF scrape_jobs = <<>>
       THEN /\ ctx' = NoJobs(ctx)
            /\ result' = <<>>
            /\ UNCHANGED files
       ELSE LET built == _build_prometheus_service(ca_mounts,
                                                   prometheus_spec)
                written == [ctx EXCEPT
                               !.generated_cms = @ \cup {L_cm_name},
                               !.warnings = @ \o built.warnings]
            IN  /\ files' = DictSet(files, L_cm_name,
                                    _render_prometheus_yml(scrape_jobs))
                /\ ctx' = Registered(written)
                /\ result' = <<<<L_prometheus, built.service>>>>
    /\ pc' = "returned"
    /\ UNCHANGED <<prometheus_spec, manifests, kind, mi, ei, target_svc,
                   compose_name, scrape_jobs, ca_mounts, stderr>>

\* The call has returned: the caller takes the result and the context
\* back, and the locals of the call are gone.  Only the provider's own
\* field outlives the call.
Return ==
    /\ pc = "returned"
    /\ pc' = "idle"
    /\ kind' = "none"
    /\ ctx' = NoCtx
    /\ manifests' = <<>>
    /\ mi' = 0
    /\ ei' = 0
    /\ target_svc' = <<>>
    /\ compose_name' = <<>>
    /\ scrape_jobs' = <<>>
    /\ ca_mounts' = <<>>
    /\ files' = <<>>
    /\ stderr' = <<>>
    /\ result' = <<>>
    /\ UNCHANGED prometheus_spec

Next ==
    \/ ConvertPrometheus
    \/ BeginServiceMonitors
    \/ ProcessMonitor
    \/ ProcessEndpoint
    \/ Finish
    \/ Return

Spec == Init /\ [][Next]_vars

----------------------------------------------------------------------------
(* Properties.                                                             *)

\* The monitor and the endpoint the running call is at.
CurrentMonitor == manifests[mi]
CurrentEndpoint == manifests[mi].endpoints[ei]

\* A ProcessEndpoint step that emitted a job, and the job it emitted.
EmitsJob == pc = "endpoint" /\ Len(scrape_jobs') = Len(scrape_jobs) + 1
NewJob == scrape_jobs'[Len(scrape_jobs')]

\* A target "host:port" split at its last colon.
LastColon(target) ==
    CHOOSE i \in 1..Len(target) :
        target[i] = ":" /\ \A j \in (i + 1)..Len(target) : target[j] # ":"
HostOf(target) == SubSeq(target, 1, LastColon(target) - 1)
PortOf(target) == SubSeq(target, LastColon(target) + 1, Len(target))
TargetOf(job) == job.static_configs[1].targets[1]

\* C1: in any run, over any list of monitors (monitors that share a name,
\* or a single-endpoint monitor named like "<other>-<i>", included), the
\* job_name values of the emitted scrape jobs are pairwise distinct.
JobNamesDistinct ==
    \A i, j \in 1..Len(scrape_jobs) :
        scrape_jobs[i].job_name = scrape_jobs[j].job_name => i = j

\* C5: once a Prometheus runtime spec is stored, no later manifest and no
\* later convert call changes it.
SpecImmutableOnceSet ==
    [][prometheus_spec # <<>> => prometheus_spec' = prometheus_spec]_vars

\* C10: the target of every emitted scrape job carries a numeric port.
TargetPortsNumeric ==
    \A i \in 1..Len(scrape_jobs) : IsDigit(PortOf(TargetOf(scrape_jobs[i])))

\* The 'no resolvable ServiceMonitors' warnings in the context.
NoneFoundCount ==
    Cardinality({i \in 1..Len(ctx.warnings) :
                     ctx.warnings[i][1] = W_none_found[1]})

\* A ServiceMonitor call has returned without a scrape job.
ReturnedWithoutJobs ==
    pc = "returned" /\ kind = "ServiceMonitor" /\ scrape_jobs = <<>>

\* C4 as claimed: a ServiceMonitor call that produced no scrape job, the
\* empty manifest list included, appended exactly one 'no resolvable
\* ServiceMonitors' warning and returned no service.
ZeroJobsWarnsOnce ==
    ReturnedWithoutJobs => NoneFoundCount = 1 /\ result = <<>>

\* C4 amended: a ServiceMonitor call that produced no scrape job returned
\* no service; over a non-empty manifest list it appended exactly one 'no
\* resolvable ServiceMonitors' warning, over an empty one no warning.
ZeroJobsWarnsOnceUnlessEmpty ==
    ReturnedWithoutJobs =>
        /\ result = <<>>
        /\ manifests # <<>> => NoneFoundCount = 1
        /\ manifests = <<>> => ctx.warnings = <<>>

\* C4 witness: with a Prometheus spec stored, a call over a non-empty list
\* returned without a job, with one warning and no service.
ZeroJobsWitness ==
    /\ ReturnedWithoutJobs
    /\ manifests # <<>>
    /\ prometheus_spec # <<>>
    /\ NoneFoundCount = 1
    /\ result = <<>>

\* The namespace of the registry entry stored under the compose name of
\* the current monitor ("" when there is no such entry).
RegistryNamespace ==
    LET reg == ctx.services_by_selector
        at == {i \in 1..Len(reg) : reg[i][1] = compose_name}
    IN  IF at = {} THEN <<>> ELSE reg[CHOOSE i \in at : TRUE][2].namespace

Qualified(name, ns) ==
    name \o <<".">> \o ns \o <<".", "s", "v", "c", ".", "c", "l", "u", "s",
                               "t", "e", "r", ".", "l", "o", "c", "a", "l">>

\* C2 as claimed: the host of a job emitted for a label-matched monitor is
\* the compose name qualified by the matched service's namespace when that
\* is non-empty, and the bare compose name otherwise.
HostFollowsMatchedNamespace ==
    [][(EmitsJob /\ target_svc # <<>>) =>
           HostOf(TargetOf(NewJob)) =
               IF target_svc[1].namespace # <<>>
               THEN Qualified(compose_name, target_svc[1].namespace)
               ELSE compose_name]_vars

\* C2 amended: the host is qualified by the matched service's namespace
\* when that is non-empty; otherwise by the namespace of the registry
\* entry stored under the compose name when that is non-empty; and is the
\* bare compose name only when neither is.
HostFollowsKnownNamespace ==
    [][(EmitsJob /\ target_svc # <<>>) =>
           HostOf(TargetOf(NewJob)) =
               IF target_svc[1].namespace # <<>>
               THEN Qualified(compose_name, target_svc[1].namespace)
               ELSE IF RegistryNamespace # <<>>
               THEN Qualified(compose_name, RegistryNamespace)
               ELSE compose_name]_vars

\* C2 witness: the matched service has no namespace, its alias names a
\* registry entry in namespace "m", and the emitted job's host carries it.
HostWitness ==
    /\ pc = "returned"
    /\ Len(scrape_jobs) = 1
    /\ target_svc # <<>>
    /\ target_svc[1].namespace = <<>>
    /\ target_svc[1].name # compose_name
    /\ HostOf(TargetOf(scrape_jobs[1])) = Qualified(compose_name, nsM)

\* The compose name a monitor resolves to, by label or by name; <<>> when
\* it resolves to none.
ResolvedName(m, c) ==
    LET found == _find_service(m.matchLabels, c.services_by_selector)
    IN  IF m.matchLabels = <<>> THEN <<>>
        ELSE IF found # <<>>
        THEN <<DictGet(c.alias_map, found[1].name, found[1].name)>>
        ELSE _fallback_by_name(MonitorName(m), m.matchLabels, c)

\* The monitor's resolved compose name matches an exclude glob.
Excluded(m, c) ==
    /\ ResolvedName(m, c) # <<>>
    /\ \E i \in 1..Len(c.config.exclude) :
           fnmatch(ResolvedName(m, c)[1], c.config.exclude[i])

\* C3: a monitor whose resolved compose name matches an exclude glob adds
\* no scrape job, no CA mount and no warning, and none of its endpoints is
\* looked at, whatever their port or TLS configuration.
ExclusionIsSilent ==
    [][(pc = "monitor" /\ mi <= Len(manifests)
            /\ Excluded(CurrentMonitor, ctx)) =>
           /\ scrape_jobs' = scrape_jobs
           /\ ca_mounts' = ca_mounts
           /\ ctx'.warnings = ctx.warnings
           /\ pc' = "monitor"
           /\ mi' = mi + 1]_vars

\* C3 witness: an excluded monitor whose endpoints have an unresolvable
\* port and an unknown CA configmap has been passed without a trace.
ExclusionWitness ==
    /\ pc = "monitor"
    /\ mi = 2
    /\ Excluded(manifests[1], ctx)
    /\ manifests[1].endpoints = <<BadPort, HttpsUnknownCa>>
    /\ scrape_jobs = <<>>
    /\ ca_mounts = <<>>
    /\ ctx.warnings = <<>>

\* C6: an emitted job has a tls_config exactly when its endpoint's scheme
\* is "https" and ca_file or server_name was populated; ca_file is
\* populated exactly when the CA configmap is named and known, server_name
\* when serverName is set; and an endpoint with a resolvable port emits
\* its job whatever its TLS settings.
TlsConfigRule ==
    [][pc = "endpoint" =>
           LET ep == CurrentEndpoint
               https == ep.scheme = <<L_https>>
               ca == /\ ep.tlsConfig.cm_name # <<>>
                     /\ ep.tlsConfig.cm_name \in ctx.configmaps
               sn == ep.tlsConfig.serverName # <<>>
           IN  /\ _resolve_port(ep, target_svc) # NoneV => EmitsJob
               /\ EmitsJob =>
                      /\ NewJob.tls_config # <<>> <=> (https /\ (ca \/ sn))
                      /\ NewJob.tls_config # <<>> =>
                             /\ NewJob.tls_config[1].ca_file # <<>> <=> ca
                             /\ NewJob.tls_config[1].server_name # <<>>
                                    <=> sn]_vars

\* C6 witness: an https endpoint naming an unknown CA configmap and no
\* serverName emitted its job without tls_config, with the CA warning.
TlsWitness ==
    /\ pc = "returned"
    /\ Len(manifests) = 1
    /\ manifests[1].endpoints = <<HttpsUnknownCa>>
    /\ Len(scrape_jobs) = 1
    /\ scrape_jobs[1].scheme = L_https
    /\ scrape_jobs[1].tls_config = <<>>
    /\ \E i \in 1..Len(ctx.warnings) : ctx.warnings[i] = W_ca(sA, cmOther)

FirstIndex(seq, x) == Min({i \in 1..Len(seq) : seq[i] = x})

\* C7: the volumes of a produced service definition are the scrape-config
\* mount followed by each distinct accumulated CA mount exactly once, in
\* first-seen order: no entry occurs twice.
VolumesDeduplicated ==
    result # <<>> =>
        LET volumes == result[1][2].volumes
            ca == Tail(volumes)
        IN  /\ volumes[1] = L_scrape_mount
            /\ \A i, j \in 1..Len(volumes) : volumes[i] = volumes[j] => i = j
            /\ Range(ca) = Range(ca_mounts)
            /\ \A i, j \in 1..Len(ca) :
                   i < j => FirstIndex(ca_mounts, ca[i])
                                < FirstIndex(ca_mounts, ca[j])

\* C7 witness: two endpoints accumulated the same CA mount and the service
\* mounts it once.
VolumesWitness ==
    /\ result # <<>>
    /\ Len(ca_mounts) = 2
    /\ ca_mounts[1] = ca_mounts[2]
    /\ Len(result[1][2].volumes) = 2
    /\ result[1][2].volumes[2] = ca_mounts[1]

\* The selector of a service holds every pair of the labels.
Qualifies(info, labels) ==
    \A j \in 1..Len(labels) :
        \E k \in 1..Len(info.selector) : info.selector[k] = labels[j]

\* C8: a monitor with non-empty matchLabels is resolved to a registry
\* service whose selector holds every pair of them, named through the
\* alias table, whenever the registry holds such a service, whatever the
\* name fallback would give; the name fallback decides only when no
\* service qualifies.
LabelMatchRule ==
    [][(pc = "monitor" /\ mi <= Len(manifests)
            /\ CurrentMonitor.matchLabels # <<>>) =>
           LET labels == CurrentMonitor.matchLabels
               reg == ctx.services_by_selector
               fallback == _fallback_by_name(MonitorName(CurrentMonitor),
                                             labels, ctx)
           IN  IF \E i \in 1..Len(reg) : Qualifies(reg[i][2], labels)
               THEN /\ target_svc' # <<>>
                    /\ \E i \in 1..Len(reg) : reg[i][2] = target_svc'[1]
                    /\ Qualifies(target_svc'[1], labels)
                    /\ compose_name' =
                           IF \E a \in 1..Len(ctx.alias_map) :
                                  ctx.alias_map[a][1] = target_svc'[1].name
                           THEN DictGet(ctx.alias_map, target_svc'[1].name,
                                        <<>>)
                           ELSE target_svc'[1].name
               ELSE /\ target_svc' = <<>>
                    /\ compose_name' =
                           IF fallback = <<>> THEN <<>> ELSE fallback[1]
                    /\ fallback = <<>> =>
                           Len(ctx'.warnings) = Len(ctx.warnings) + 1]_vars

\* C8 witness: the first registry service does not qualify, the second
\* does and is the target under its alias "b", although the name fallback
\* would have resolved the monitor to "z".
LabelMatchWitness ==
    /\ pc = "endpoint"
    /\ target_svc # <<>>
    /\ Len(ctx.services_by_selector) = 2
    /\ ~Qualifies(ctx.services_by_selector[1][2], CurrentMonitor.matchLabels)
    /\ target_svc[1] = ctx.services_by_selector[2][2]
    /\ _fallback_by_name(MonitorName(CurrentMonitor),
                         CurrentMonitor.matchLabels, ctx) = <<sZ>>
    /\ compose_name = sB

\* C9: each endpoint is settled on its own.  An endpoint whose port does
\* not resolve appends one warning and no job; any other appends one job,
\* named after its monitor and index, at the end of the list; either way
\* the next endpoint, or after the last one the next monitor, follows.
EndpointsIndependent ==
    [][/\ pc = "endpoint" =>
              LET m == CurrentMonitor
                  n == Len(m.endpoints)
              IN  /\ IF _resolve_port(CurrentEndpoint, target_svc) = NoneV
                     THEN /\ scrape_jobs' = scrape_jobs
                          /\ ca_mounts' = ca_mounts
                          /\ Len(ctx'.warnings) = Len(ctx.warnings) + 1
                     ELSE /\ Len(scrape_jobs') = Len(scrape_jobs) + 1
                          /\ SubSeq(scrape_jobs', 1, Len(scrape_jobs))
                                 = scrape_jobs
                          /\ NewJob.job_name =
                                 IF n = 1 THEN MonitorName(m)
                                 ELSE MonitorName(m) \o <<"-">>
                                          \o Str(ei - 1)
                  /\ IF ei < n
                     THEN pc' = "endpoint" /\ mi' = mi /\ ei' = ei + 1
                     ELSE pc' = "monitor" /\ mi' = mi + 1
       /\ (pc = "monitor" /\ mi <= Len(manifests)) =>
              /\ scrape_jobs' = scrape_jobs
              /\ \/ pc' = "endpoint" /\ mi' = mi /\ ei' = 1
                 \/ pc' = "monitor" /\ mi' = mi + 1]_vars

\* C9 witness: the first endpoint's port did not resolve, the second
\* endpoint still emitted its job "a-1".
EndpointsWitness ==
    /\ pc = "returned"
    /\ Len(manifests) = 1
    /\ Len(manifests[1].endpoints) = 2
    /\ manifests[1].endpoints[1].port = <<StrV(sZ)>>
    /\ manifests[1].endpoints[2].port = <<IntV(80)>>
    /\ Len(scrape_jobs) = 1
    /\ scrape_jobs[1].job_name = sA \o <<"-", "1">>
    /\ ctx.warnings[1] = W_port(sA, StrV(sZ))

============================================================================
